---------------------------- MODULE Spec2Model ----------------------------
(***************************************************************************)
(* A model of bpprof (src/bpprof.go): the heap report handler Heap, its    *)
(* helpers formatSize and printStackRecord, and the runtime facilities it  *)
(* reads (runtime.MemProfile, runtime.MemStats).                           *)
(*                                                                         *)
(* The module holds five specifications over one set of variables:        *)
(*   Spec         the report: deduplication, sorting, totals, rendering    *)
(*   SpecCapture  the snapshot acquisition loop against a growing profile  *)
(*   SpecPause    the reordering of the MemStats.PauseNs ring              *)
(*   SpecStack    printStackRecord                                         *)
(*   SpecFormat   formatSize                                               *)
(***************************************************************************)
EXTENDS Integers, Sequences, FiniteSets, TLC

VARIABLES
    pc,             \* position of the modelled call
    p,              \* Heap: the captured records ([]runtime.MemProfileRecord)
    sortKey,        \* Heap: r.FormValue("sort")
    iter,           \* Heap: the order in which `range pm` visited the map
    sorted,         \* Heap: p after it is rebuilt from pm and sorted
    total,          \* Heap: the accumulated totals record
    header,         \* Heap: the figures of the "heap profile:" line
    lines,          \* Heap: the per-record lines, in the order written
    grown,          \* runtime: records added to the profile since the last MemProfile call
    ok,             \* Heap: the ok result of the last MemProfile call
    enlarged,       \* Heap: len(p) of the newest buffer minus len(p) of the one before
    NumGC,          \* runtime.MemStats.NumGC
    PauseNs,        \* runtime.MemStats.PauseNs, indexed 0..255
    pauseNs,        \* Heap: the reordered pause list
    pauseNsLongest, \* Heap: the longest pause seen while reordering
    stk,            \* printStackRecord: the stack (program counters)
    allFrames,      \* printStackRecord: the allFrames argument
    passes,         \* printStackRecord: what each invocation wrote, one entry per pass
    size,           \* formatSize: the argument
    formatted       \* formatSize: the result

vars == <<pc, p, sortKey, iter, sorted, total, header, lines, grown, ok, enlarged,
          NumGC, PauseNs, pauseNs, pauseNsLongest, stk, allFrames, passes,
          size, formatted>>

heapVars == <<p, sortKey, iter, sorted, total, header, lines>>
captureVars == <<grown, ok, enlarged>>
pauseVars == <<NumGC, PauseNs, pauseNs, pauseNsLongest>>
stackVars == <<stk, allFrames, passes>>
formatVars == <<size, formatted>>

-----------------------------------------------------------------------------
(* uintptr arithmetic, modulo 2^PtrBits.  A word is the sequence of its     *)
(* 16-bit limbs, least significant first, so that every intermediate value  *)
(* stays within the model checker's integers.                               *)

PtrBits == 64
LimbBase == 2 ^ 16
Limbs == PtrBits \div 16

RECURSIVE ToLimbs(_, _)
ToLimbs(n, k) ==
    IF k = 0 THEN <<>> ELSE <<n % LimbBase>> \o ToLimbs(n \div LimbBase, k - 1)

\* The word of a natural number.
ToWord(n) == ToLimbs(n, Limbs)

RECURSIVE AddFrom(_, _, _, _)
AddFrom(a, b, i, carry) ==
    IF i > Limbs THEN <<>>
    ELSE <<(a[i] + b[i] + carry) % LimbBase>>
             \o AddFrom(a, b, i + 1, (a[i] + b[i] + carry) \div LimbBase)

\* a + b
WAdd(a, b) == AddFrom(a, b, 1, 0)

RECURSIVE ShlFrom(_, _, _)
ShlFrom(a, k, i) ==
    IF i > Limbs THEN <<>>
    ELSE <<((a[i] * (2 ^ k)) % LimbBase)
             + (IF i > 1 THEN a[i - 1] \div (2 ^ (16 - k)) ELSE 0)>>
             \o ShlFrom(a, k, i + 1)

\* a << k, for 0 < k < 16
WShl(a, k) == ShlFrom(a, k, 1)

RECURSIVE ShrFrom(_, _, _)
ShrFrom(a, k, i) ==
    IF i > Limbs THEN <<>>
    ELSE <<(a[i] \div (2 ^ k))
             + (IF i < Limbs THEN (a[i + 1] % (2 ^ k)) * (2 ^ (16 - k)) ELSE 0)>>
             \o ShrFrom(a, k, i + 1)

\* a >> k, for 0 < k < 16
WShr(a, k) == ShrFrom(a, k, 1)

RECURSIVE XorInt(_, _)
XorInt(x, y) ==
    IF x = 0 THEN y
    ELSE IF y = 0 THEN x
    ELSE ((x + y) % 2) + 2 * XorInt(x \div 2, y \div 2)

RECURSIVE XorFrom(_, _, _)
XorFrom(a, b, i) ==
    IF i > Limbs THEN <<>> ELSE <<XorInt(a[i], b[i])>> \o XorFrom(a, b, i + 1)

\* a ^ b
WXor(a, b) == XorFrom(a, b, 1)

\* One round of the loop body: h += pc; h += h << 10; h ^= h >> 6
HashStep(h, w) ==
    LET h1 == WAdd(h, w)
        h2 == WAdd(h1, WShl(h1, 10))
    IN  WXor(h2, WShr(h2, 6))

\* h += h << 3; h ^= h >> 11
HashFinal(h) ==
    LET h1 == WAdd(h, WShl(h, 3))
    IN  WXor(h1, WShr(h1, 11))

\* The loop `for _, pc := range r.Stack0`, its state being the pair of the
\* next index and h; then the two closing statements.
RECURSIVE HashFrom(_, _)
HashFrom(stack0, st) ==
    IF st[1] > Len(stack0) THEN HashFinal(st[2])
    ELSE HashFrom(stack0, <<st[1] + 1, HashStep(st[2], ToWord(stack0[st[1]]))>>)

\* The aggregation key of a record: the hash over all of r.Stack0.
HashStack(stack0) == HashFrom(stack0, <<1, ToWord(0)>>)

-----------------------------------------------------------------------------
(* runtime.MemProfileRecord *)

StackDepth == 32

\* Stack0 is a fixed array: the program counters, then zeroes.
Stack0Of(s) == [i \in 1 .. StackDepth |-> IF i <= Len(s) THEN s[i] ELSE 0]

RECURSIVE StackPrefix(_, _)
StackPrefix(stack0, i) ==
    IF i > Len(stack0) \/ stack0[i] = 0 THEN <<>>
    ELSE <<stack0[i]>> \o StackPrefix(stack0, i + 1)

\* r.Stack(): Stack0 up to its first zero.
Stack(r) == StackPrefix(r.Stack0, 1)

InUseBytes(r) == r.AllocBytes - r.FreeBytes
InUseObjects(r) == r.AllocObjects - r.FreeObjects

-----------------------------------------------------------------------------
(* formatSize.  An int64 or float64 quantity is written [m |-> m, e |-> e]  *)
(* and stands for m * 1024^e: the model checker's integers are 32 bits      *)
(* wide, and a float64 divided by 1024 keeps its mantissa exactly.          *)

units == <<"B", "KB", "MB", "GB", "TB">>

\* float64(size) of an int64 held as a plain integer.
Float(n) == [m |-> n, e |-> 0]

\* The comparison as s <= 1000.
FLessEq1000(s) ==
    IF s.e >= 1 THEN s.m <= 0
    ELSE IF -s.e >= 3 THEN TRUE
    ELSE s.m <= 1000 * (1024 ^ (-s.e))

\* s < 1000
FLess1000(s) ==
    IF s.e >= 1 THEN s.m <= 0
    ELSE IF -s.e >= 3 THEN TRUE
    ELSE s.m < 1000 * (1024 ^ (-s.e))

\* s /= 1024
FDiv1024(s) == [s EXCEPT !.e = @ - 1]

\* n / d rounded to the nearest integer, ties to even (n >= 0, d > 0), the
\* rounding strconv applies to an exactly representable value.
RoundHalfEven(n, d) ==
    LET q == n \div d
        r == n % d
    IN  IF 2 * r > d \/ (2 * r = d /\ q % 2 = 1) THEN q + 1 ELSE q

Pad2(n) == IF n < 10 THEN "0" \o ToString(n) ELSE ToString(n)

\* fmt.Sprintf("%.2f", s)
Sprintf2f(s) ==
    IF s.e >= 0
    THEN ToString(IF s.m = 0 THEN 0 ELSE s.m * (1024 ^ s.e)) \o ".00"
    ELSE LET h == RoundHalfEven(s.m * 100, 1024 ^ (-s.e))
         IN  ToString(h \div 100) \o "." \o Pad2(h % 100)

\* fmt.Sprintf("%.0f", s)
Sprintf0f(s) ==
    IF s.e >= 0
    THEN ToString(IF s.m = 0 THEN 0 ELSE s.m * (1024 ^ s.e))
    ELSE ToString(RoundHalfEven(s.m, 1024 ^ (-s.e)))

RECURSIVE FormatLoop(_, _)
FormatLoop(s, i) ==
    IF i > Len(units) THEN Sprintf0f(s) \o "TB"
    ELSE IF FLess1000(s) THEN Sprintf2f(s) \o units[i]
    ELSE FormatLoop(FDiv1024(s), i + 1)

formatSize(sz) == FormatLoop(sz, 1)

-----------------------------------------------------------------------------
(* printStackRecord *)

MaxStack == 3

\* The symbol table: the functions runtime.FuncForPC can find.  Every other
\* program counter resolves to no function (f == nil).
Funcs ==
    {[Name |-> "main.f", Entry |-> 100, End |-> 101],
     [Name |-> "runtime.mallocgc", Entry |-> 200, End |-> 201],
     [Name |-> "runtime.goexit", Entry |-> 300, End |-> 301],
     [Name |-> "runtime.panic", Entry |-> 400, End |-> 401]}

Resolves(addr) == \E f \in Funcs : f.Entry <= addr /\ addr <= f.End
FuncForPC(addr) == CHOOSE f \in Funcs : f.Entry <= addr /\ addr <= f.End

\* strings.HasPrefix
HasPrefix(s, prefix) == Len(s) >= Len(prefix) /\ SubSeq(s, 1, Len(prefix)) = prefix

\* runtime.GOARCH of the build.
GOARCH == "amd64"

\* The call instruction's address for a return address, as the code backs up.
BackUp(addr) == IF GOARCH = "386" \/ GOARCH = "amd64" THEN addr - 1 ELSE addr - 4

AddrLine(addr) == [kind |-> "addr", pc |-> addr]
FrameLine(addr, f, tracepc) ==
    [kind |-> "frame", pc |-> addr, name |-> f.Name, off |-> addr - f.Entry,
     line |-> tracepc]
BlankLine == [kind |-> "blank"]

\* Hidden without the test of show: runtime functions are always skipped.
HiddenAlways(name, show) ==
    name = "runtime.goexit" \/ HasPrefix(name, "runtime.")

\* Hidden without the test for runtime.goexit.
HiddenNoGoexit(name, show) == ~show /\ HasPrefix(name, "runtime.")

\* The frame is skipped by the `continue` of the loop.
Hidden(name, show) ==
    name = "runtime.goexit" \/ (~show /\ HasPrefix(name, "runtime."))

\* The loop over stk from index i on; the result is the final show flag and
\* everything written.
RECURSIVE StackLoop(_, _, _, _, _)
StackLoop(s, i, show, wasPanic, out) ==
    IF i > Len(s) THEN [show |-> show, out |-> out]
    ELSE IF ~Resolves(s[i])
    THEN StackLoop(s, i + 1, TRUE, FALSE, Append(out, AddrLine(s[i])))
    ELSE LET f == FuncForPC(s[i])
             tracepc == IF i > 1 /\ s[i] > f.Entry /\ ~wasPanic
                        THEN BackUp(s[i]) ELSE s[i]
             panic == (f.Name = "runtime.panic")
         IN  IF Hidden(f.Name, show)
             THEN StackLoop(s, i + 1, show, panic, out)
             ELSE StackLoop(s, i + 1, TRUE, panic,
                            Append(out, FrameLine(s[i], f, tracepc)))

\* printStackRecord(w, stk, allFrames): what each invocation wrote, the outer
\* call first.
RECURSIVE printStackRecord(_, _)
printStackRecord(s, all) ==
    LET r == StackLoop(s, 1, all, FALSE, <<>>)
    IN  IF ~r.show
        THEN <<r.out>> \o printStackRecord(s, TRUE)
        ELSE <<Append(r.out, BlankLine)>>

RECURSIVE Flatten(_)
Flatten(ss) == IF ss = <<>> THEN <<>> ELSE Head(ss) \o Flatten(Tail(ss))

\* The program counters a stack trace may hold: an unresolvable address, a
\* function entry, and return addresses inside each function.
PCSet == {7, 100, 101, 201, 301, 401}
Stacks == UNION {[1 .. n -> PCSet] : n \in 0 .. MaxStack}

InitStack ==
    /\ stk \in Stacks
    /\ allFrames \in BOOLEAN
    /\ passes = <<>>

IdleStack ==
    /\ stk = <<>>
    /\ allFrames = FALSE
    /\ passes = <<>>

PrintStackRecordCall ==
    /\ pc = "printStackRecord"
    /\ passes' = printStackRecord(stk, allFrames)
    /\ pc' = "printed"
    /\ UNCHANGED <<stk, allFrames, heapVars, captureVars, pauseVars, formatVars>>

-----------------------------------------------------------------------------
(* Heap: deduplication, sorting, totals and rendering of the captured       *)
(* records.                                                                 *)

MaxRecords == 3

\* The stacks of the modelled profile.  StackA and StackB are different call
\* stacks with the same aggregation key.
StackA == <<1, 2000>>
StackB == <<2, 959>>
StackC == <<3>>
StackD == <<1>>
StackSet == {StackA, StackB, StackC, StackD}

\* (AllocBytes, FreeBytes, AllocObjects, FreeObjects) of a bucket.
CountSet == {<<64, 60, 1, 0>>, <<48, 8, 6, 2>>}

Record(s, c) ==
    [Stack0 |-> Stack0Of(s), AllocBytes |-> c[1], FreeBytes |-> c[2],
     AllocObjects |-> c[3], FreeObjects |-> c[4]]

RecordSet == {Record(s, c) : s \in StackSet, c \in CountSet}

\* What runtime.MemProfile can hand back: any list of records.
Profiles == UNION {[1 .. n -> RecordSet] : n \in 0 .. MaxRecords}

\* The keys of the modelled stacks, computed once.
HashTable == {<<Stack0Of(s), HashStack(Stack0Of(s))>> : s \in StackSet}
Hash(stack0) == (CHOOSE e \in HashTable : e[1] = stack0)[2]

\* Merge with the additions left out: the later record replaces the earlier.
MergeOverwrite(r, old) == r

\* Merge with the object counts left out.
MergeBytesOnly(r, old) ==
    [r EXCEPT !.AllocBytes = @ + old.AllocBytes,
              !.FreeBytes = @ + old.FreeBytes]

\* r.AllocBytes += pm[h].AllocBytes ... r.FreeObjects += pm[h].FreeObjects
Merge(r, old) ==
    [r EXCEPT !.AllocBytes = @ + old.AllocBytes,
              !.FreeBytes = @ + old.FreeBytes,
              !.AllocObjects = @ + old.AllocObjects,
              !.FreeObjects = @ + old.FreeObjects]

\* One round of `for _, r := range p`: the map after record r.
Put(pm, r) ==
    LET h == Hash(r.Stack0)
        r2 == IF h \in DOMAIN pm THEN Merge(r, pm[h]) ELSE r
    IN  [k \in DOMAIN pm \cup {h} |-> IF k = h THEN r2 ELSE pm[k]]

RECURSIVE DedupFrom(_, _, _)
DedupFrom(recs, i, pm) ==
    IF i > Len(recs) THEN pm ELSE DedupFrom(recs, i + 1, Put(pm, recs[i]))

\* pm after the loop over p; the empty map is the function with no domain.
Dedup(recs) == DedupFrom(recs, 1, <<>>)

\* The orders in which `range pm` may visit the keys of pm.
IterOrders(pm) ==
    {f \in [1 .. Cardinality(DOMAIN pm) -> DOMAIN pm] :
        \A i, j \in DOMAIN f : i # j => f[i] # f[j]}

\* p rebuilt by appending the map's records in iteration order.
Rebuild(pm, order) == [i \in DOMAIN order |-> pm[order[i]]]

\* Less with byAllocObjects comparing the bytes, as byAllocBytes does.
LessCopied(by, a, b) ==
    CASE by = "byInUseBytes" -> InUseBytes(a) > InUseBytes(b)
      [] by = "byAllocBytes" -> a.AllocBytes > b.AllocBytes
      [] by = "byAllocObjects" -> a.AllocBytes > b.AllocBytes
      [] by = "byInUseObjects" -> InUseObjects(a) > InUseObjects(b)

\* The Less methods of the four sort.Interface types.
Less(by, a, b) ==
    CASE by = "byInUseBytes" -> InUseBytes(a) > InUseBytes(b)
      [] by = "byAllocBytes" -> a.AllocBytes > b.AllocBytes
      [] by = "byAllocObjects" -> a.AllocObjects > b.AllocObjects
      [] by = "byInUseObjects" -> InUseObjects(a) > InUseObjects(b)

Swap(x, i, j) == [x EXCEPT ![i] = x[j], ![j] = x[i]]

\* The inner loop of insertion sort: for j := i; j > a && Less(j, j-1); j--
RECURSIVE SiftDown(_, _, _)
SiftDown(by, x, j) ==
    IF j > 1 /\ Less(by, x[j], x[j - 1])
    THEN SiftDown(by, Swap(x, j, j - 1), j - 1)
    ELSE x

RECURSIVE InsertionSort(_, _, _)
InsertionSort(by, x, i) ==
    IF i > Len(x) THEN x ELSE InsertionSort(by, SiftDown(by, x, i), i + 1)

\* sort.Sort on a slice of fewer than 12 elements is an insertion sort.
SortSort(by, x) == InsertionSort(by, x, 2)

\* The switch with a case for "inuse" and "" and another default.
SortTypeOtherDefault(key) ==
    CASE key = "allocbytes" -> "byAllocBytes"
      [] key = "allocobjects" -> "byAllocObjects"
      [] key = "inuseobjects" -> "byInUseObjects"
      [] key \in {"", "inuse"} -> "byInUseBytes"
      [] OTHER -> "byAllocBytes"

\* switch r.FormValue("sort")
SortType(key) ==
    CASE key = "allocbytes" -> "byAllocBytes"
      [] key = "allocobjects" -> "byAllocObjects"
      [] key = "inuseobjects" -> "byInUseObjects"
      [] OTHER -> "byInUseBytes"

ZeroRecord ==
    [Stack0 |-> Stack0Of(<<>>), AllocBytes |-> 0, FreeBytes |-> 0,
     AllocObjects |-> 0, FreeObjects |-> 0]

\* The totals loop with the line for FreeBytes left out.
AddTotalNoFreeBytes(t, r) ==
    [t EXCEPT !.AllocBytes = @ + r.AllocBytes,
              !.AllocObjects = @ + r.AllocObjects,
              !.FreeObjects = @ + r.FreeObjects]

\* One round of the totals loop.
AddTotal(t, r) ==
    [t EXCEPT !.AllocBytes = @ + r.AllocBytes,
              !.AllocObjects = @ + r.AllocObjects,
              !.FreeBytes = @ + r.FreeBytes,
              !.FreeObjects = @ + r.FreeObjects]

RECURSIVE TotalFrom(_, _, _)
TotalFrom(recs, i, t) ==
    IF i > Len(recs) THEN t ELSE TotalFrom(recs, i + 1, AddTotal(t, recs[i]))

Total(recs) == TotalFrom(recs, 1, ZeroRecord)

\* The figures of "heap profile: %d: %d [%d: %d]" and of its comment line.
HeaderLine(t) ==
    [inUseObjects |-> InUseObjects(t), inUseBytes |-> InUseBytes(t),
     allocObjects |-> t.AllocObjects, allocBytes |-> t.AllocBytes,
     inUseSize |-> formatSize(Float(InUseBytes(t))),
     allocSize |-> formatSize(Float(t.AllocBytes))]

\* The figures of a record's "%d: %d [%d: %d] @ ..." line and its comment line.
RecordLine(r) ==
    [inUseObjects |-> InUseObjects(r), inUseBytes |-> InUseBytes(r),
     allocObjects |-> r.AllocObjects, allocBytes |-> r.AllocBytes,
     stack |-> Stack(r),
     trace |-> Flatten(printStackRecord(Stack(r), FALSE)),
     inUseSize |-> formatSize(Float(InUseBytes(r))),
     allocSize |-> formatSize(Float(r.AllocBytes))]

RenderRecords(recs) == [i \in DOMAIN recs |-> RecordLine(recs[i])]

\* The sort values a request may carry; "" is the absent parameter.
SortValues == {"inuse", "allocbytes", "allocobjects", "inuseobjects"}
SortInputs == SortValues \cup {"", "bogus"}

InitHeap ==
    /\ pc = "captured"
    /\ p \in Profiles
    /\ sortKey = ""
    /\ iter = <<>>
    /\ sorted = <<>>
    /\ total = ZeroRecord
    /\ header = HeaderLine(ZeroRecord)
    /\ lines = <<>>

\* Heap from the end of the capture loop to the last record line, for a
\* request whose sort parameter is key.
Heap(key) ==
    /\ pc = "captured"
    /\ \E order \in IterOrders(Dedup(p)) :
         LET recs == SortSort(SortType(key), Rebuild(Dedup(p), order))
         IN  /\ iter' = order
             /\ sorted' = recs
             /\ total' = Total(recs)
             /\ header' = HeaderLine(Total(recs))
             /\ lines' = RenderRecords(recs)
    /\ sortKey' = key
    /\ pc' = "done"
    /\ UNCHANGED <<p, captureVars, pauseVars, stackVars, formatVars>>

IdleHeap ==
    /\ p = <<>>
    /\ sortKey = ""
    /\ iter = <<>>
    /\ sorted = <<>>
    /\ total = ZeroRecord
    /\ header = HeaderLine(ZeroRecord)
    /\ lines = <<>>

-----------------------------------------------------------------------------
(* Heap: the snapshot acquisition loop.  runtime.MemProfile(p, true)        *)
(* reports the number n of records in the profile and ok = (n <= len(p)).   *)
(* The profile only grows, so the loop is decided by how many records were  *)
(* added since the call before: that number is `grown`.                     *)

Slack == 50
MaxGrown == 52

\* The numbers of records concurrent allocation adds in one step.
GrowSteps == {1, Slack, Slack + 1}

InitCapture ==
    /\ grown = 0
    /\ ok = FALSE
    /\ enlarged = 0

IdleCapture == InitCapture

\* The program allocates at new call sites: the profile gains k records.
Grow(k) ==
    /\ pc \in {"size", "capture"}
    /\ grown + k <= MaxGrown
    /\ grown' = grown + k
    /\ UNCHANGED <<pc, ok, enlarged, heapVars, pauseVars, stackVars, formatVars>>

\* n, ok := runtime.MemProfile(nil, true)
MemProfileSize ==
    /\ pc = "size"
    /\ grown' = 0
    /\ ok' = FALSE
    /\ pc' = "capture"
    /\ UNCHANGED <<enlarged, heapVars, pauseVars, stackVars, formatVars>>

\* One round of the loop: p = make(..., n+50); n, ok = runtime.MemProfile(p,
\* true).  The buffer holds Slack more records than the profile had at the
\* call before; on failure the next buffer is longer by the records added.
MemProfileCapture ==
    /\ pc = "capture"
    /\ ok' = (grown <= Slack)
    /\ enlarged' = IF grown <= Slack THEN enlarged ELSE grown
    /\ grown' = 0
    /\ pc' = IF grown <= Slack THEN "captured" ELSE "capture"
    /\ UNCHANGED <<heapVars, pauseVars, stackVars, formatVars>>

-----------------------------------------------------------------------------
(* Heap: the pause history.  runtime.MemStats.PauseNs is a ring of the      *)
(* last 256 pauses; the pause of collection g is at index (g - 1) % 256, so *)
(* the most recent one is at (NumGC + 255) % 256.                           *)

PauseLen == 256
MaxNumGC == 530

\* The pause of the g-th collection, for the two modelled histories.
PauseKinds == {1, 2}
PauseOf(kind, g) == IF kind = 1 THEN g ELSE 1 + ((g * 7) % 5)

\* The ring after numgc collections.
PauseNsAfter(kind, numgc) ==
    [i \in 0 .. (PauseLen - 1) |->
        LET g == numgc - ((numgc - 1 - i) % PauseLen)
        IN  IF g >= 1 THEN PauseOf(kind, g) ELSE 0]

InitPause ==
    /\ NumGC \in 0 .. MaxNumGC
    /\ \E kind \in PauseKinds : PauseNs = PauseNsAfter(kind, NumGC)
    /\ pauseNs = <<>>
    /\ pauseNsLongest = 0

IdlePause ==
    /\ NumGC = 0
    /\ PauseNs = PauseNsAfter(1, 0)
    /\ pauseNs = <<>>
    /\ pauseNsLongest = 0

\* for i := from; i > stop; i-- { pauseNs = append(pauseNs, PauseNs[i]) }:
\* the entries from index `from` down to index stop + 1.
PauseLoop(ring, from, stop) ==
    [k \in 1 .. (IF from > stop THEN from - stop ELSE 0) |-> ring[from - k + 1]]

\* pauseNsLongest: the largest duration passed to `if d > pauseNsLongest`.
Longest(list) ==
    LET ds == {list[k] : k \in DOMAIN list} \cup {0}
    IN  CHOOSE d \in ds : \A x \in ds : x <= d

\* The two loops that fill pauseNs.
SortPauses(numgc, ring) ==
    LET newest == (numgc + 255) % 256
    IN  PauseLoop(ring, newest, 0) \o PauseLoop(ring, 255, newest)

ReadPauses ==
    /\ pc = "memstats"
    /\ pauseNs' = SortPauses(NumGC, PauseNs)
    /\ pauseNsLongest' = Longest(SortPauses(NumGC, PauseNs))
    /\ pc' = "reported"
    /\ UNCHANGED <<NumGC, PauseNs, heapVars, captureVars, stackVars, formatVars>>

-----------------------------------------------------------------------------
(* formatSize as a call *)

MaxMantissa == 2600

\* The modelled arguments: m * 1024^e for e up to TB, and the negative bytes.
SizeInputs ==
    {[m |-> m, e |-> e] : m \in 0 .. MaxMantissa, e \in 0 .. 4}
        \cup {[m |-> -m, e |-> 0] : m \in 1 .. MaxMantissa}

InitFormat ==
    /\ size \in SizeInputs
    /\ formatted = ""

IdleFormat ==
    /\ size = Float(0)
    /\ formatted = ""

FormatSizeCall ==
    /\ pc = "formatSize"
    /\ formatted' = formatSize(size)
    /\ pc' = "formatted"
    /\ UNCHANGED <<size, heapVars, captureVars, pauseVars, stackVars>>

-----------------------------------------------------------------------------
(* The specifications *)

Init ==
    /\ InitHeap
    /\ IdleCapture /\ IdlePause /\ IdleStack /\ IdleFormat

Next == \E key \in SortInputs : Heap(key)

Spec == Init /\ [][Next]_vars

InitCaptureSpec ==
    /\ pc = "size"
    /\ InitCapture
    /\ IdleHeap /\ IdlePause /\ IdleStack /\ IdleFormat

NextCapture ==
    \/ MemProfileSize
    \/ MemProfileCapture
    \/ \E k \in GrowSteps : Grow(k)

\* The goroutine serving the request keeps running: each of its calls is
\* eventually made.  Nothing is assumed of the allocating program.
SpecCapture ==
    /\ InitCaptureSpec
    /\ [][NextCapture]_vars
    /\ WF_vars(MemProfileSize)
    /\ WF_vars(MemProfileCapture)

InitPauseSpec ==
    /\ pc = "memstats"
    /\ InitPause
    /\ IdleHeap /\ IdleCapture /\ IdleStack /\ IdleFormat

NextPause == ReadPauses

SpecPause == InitPauseSpec /\ [][NextPause]_vars

InitStackSpec ==
    /\ pc = "printStackRecord"
    /\ InitStack
    /\ IdleHeap /\ IdleCapture /\ IdlePause /\ IdleFormat

NextStack == PrintStackRecordCall

SpecStack == InitStackSpec /\ [][NextStack]_vars

InitFormatSpec ==
    /\ pc = "formatSize"
    /\ InitFormat
    /\ IdleHeap /\ IdleCapture /\ IdlePause /\ IdleStack

NextFormat == FormatSizeCall

SpecFormat == InitFormatSpec /\ [][NextFormat]_vars

-----------------------------------------------------------------------------
(* Properties of the report (Spec) *)

Key(r) == Hash(r.Stack0)
CountFields == {"AllocBytes", "FreeBytes", "AllocObjects", "FreeObjects"}

\* The sum of field f over the records of recs from index i on whose key is
\* in keys.
RECURSIVE SumField(_, _, _, _)
SumField(recs, i, keys, f) ==
    IF i > Len(recs) THEN 0
    ELSE (IF Key(recs[i]) \in keys THEN recs[i][f] ELSE 0)
            + SumField(recs, i + 1, keys, f)

RawKeys == {Key(p[i]) : i \in DOMAIN p}

\* The sum of figure f over the rendered lines from index i on.
RECURSIVE SumLines(_, _, _)
SumLines(ls, i, f) ==
    IF i > Len(ls) THEN 0 ELSE ls[i][f] + SumLines(ls, i + 1, f)

\* C1: the captured records with one stack trace are reported as exactly one
\* entry, and each of that entry's four counts is the sum of the counts of
\* the captured records merged into it.
C1_DuplicatesMerged ==
    pc = "done" =>
        /\ Len(lines) = Len(sorted)
        /\ \A i \in DOMAIN p :
             /\ Cardinality({j \in DOMAIN sorted : Key(sorted[j]) = Key(p[i])}) = 1
             /\ Cardinality({j \in DOMAIN sorted : sorted[j].Stack0 = p[i].Stack0}) <= 1
             /\ \A j \in DOMAIN sorted :
                  Key(sorted[j]) = Key(p[i]) =>
                      /\ \A f \in CountFields :
                           sorted[j][f] = SumField(p, 1, {Key(p[i])}, f)
                      /\ lines[j].allocBytes = SumField(p, 1, {Key(p[i])}, "AllocBytes")
                      /\ lines[j].allocObjects = SumField(p, 1, {Key(p[i])}, "AllocObjects")

\* Two captured records share a stack and the report has another entry too.
C1_Witness ==
    /\ pc = "done"
    /\ \E i, j \in DOMAIN p : i # j /\ p[i].Stack0 = p[j].Stack0
    /\ Len(lines) = 2

\* C2: the four figures of the header line are the sums of the same figures
\* over the record lines.
C2_HeaderIsSumOfLines ==
    pc = "done" =>
        \A f \in {"inUseObjects", "inUseBytes", "allocObjects", "allocBytes"} :
            header[f] = SumLines(lines, 1, f)

\* Several lines, one of them merged from two records with freed bytes.
C2_Witness ==
    /\ pc = "done"
    /\ Len(lines) = 2
    /\ Len(p) = 3
    /\ header.inUseBytes < header.allocBytes

\* The figure of a rendered line that a sort value orders by.
Metric(key, l) ==
    CASE key = "inuse" -> l.inUseBytes
      [] key = "allocbytes" -> l.allocBytes
      [] key = "allocobjects" -> l.allocObjects
      [] key = "inuseobjects" -> l.inUseObjects

\* C3: for each of the four sort values, the record lines are in
\* non-increasing order of the value's metric.
C3_SortedByMetric ==
    (pc = "done" /\ sortKey \in SortValues) =>
        \A i \in 1 .. (Len(lines) - 1) :
            Metric(sortKey, lines[i]) >= Metric(sortKey, lines[i + 1])

\* Three lines sorted by allocated objects, in an order that no sort by bytes
\* gives.
C3_Witness ==
    /\ pc = "done"
    /\ sortKey = "allocobjects"
    /\ Len(lines) = 3
    /\ lines[1].allocObjects > lines[3].allocObjects
    /\ lines[1].allocBytes < lines[3].allocBytes

\* C4: with a sort value outside the four, the output is the output of the
\* request without the parameter (for the same captured records and the same
\* map iteration order): the records by in-use bytes, descending.
C4_UnknownSortIsDefault ==
    (pc = "done" /\ sortKey \notin SortValues) =>
        LET absent == SortSort(SortType(""), Rebuild(Dedup(p), iter))
        IN  /\ lines = RenderRecords(absent)
            /\ header = HeaderLine(Total(absent))
            /\ \A i \in 1 .. (Len(lines) - 1) :
                 lines[i].inUseBytes >= lines[i + 1].inUseBytes

\* An unknown value, and lines whose order by allocated bytes is another one.
C4_Witness ==
    /\ pc = "done"
    /\ sortKey = "bogus"
    /\ Len(lines) >= 2
    /\ lines[1].inUseBytes > lines[2].inUseBytes
    /\ lines[1].allocBytes < lines[2].allocBytes

\* C10: the report has one entry per distinct aggregation key, and each of
\* the four counts summed over the entries is the count summed over the
\* captured records.
C10_CountsConserved ==
    pc = "done" =>
        /\ Len(sorted) = Cardinality(RawKeys)
        /\ Len(lines) = Cardinality(RawKeys)
        /\ \A f \in CountFields :
             /\ SumField(sorted, 1, RawKeys, f) = SumField(p, 1, RawKeys, f)
             /\ total[f] = SumField(p, 1, RawKeys, f)

\* Two records with different stacks and one key were merged.
C10_Witness ==
    /\ pc = "done"
    /\ \E i, j \in DOMAIN p : p[i].Stack0 # p[j].Stack0 /\ Key(p[i]) = Key(p[j])
    /\ Len(sorted) < Len(p)
    /\ Len(sorted) >= 2

-----------------------------------------------------------------------------
(* Properties of the capture loop (SpecCapture) *)

\* C5: the snapshot acquisition loop terminates: it eventually leaves with a
\* capture that runtime.MemProfile confirmed complete.
C5_LoopTerminates == <>(pc = "captured" /\ ok)

-----------------------------------------------------------------------------
(* Properties of the pause list (SpecPause) *)

\* C6: the pause list starts with the most recent pause,
\* PauseNs[(NumGC + 255) % 256], and goes on through the ring backwards,
\* wrapping from index 0 to index 255.
C6_NewestFirstCircular ==
    pc = "reported" =>
        /\ Len(pauseNs) > 0
        /\ \A k \in 1 .. Len(pauseNs) :
             pauseNs[k] = PauseNs[(((NumGC + 255) % 256) + 256 - (k - 1)) % 256]

-----------------------------------------------------------------------------
(* Properties of printStackRecord (SpecStack) *)

IsRuntime(addr) == Resolves(addr) /\ HasPrefix(FuncForPC(addr).Name, "runtime.")
IsGoexit(addr) == Resolves(addr) /\ FuncForPC(addr).Name = "runtime.goexit"
IsUser(addr) == Resolves(addr) /\ ~IsRuntime(addr)

\* Every frame of the stack resolves to a runtime function.
AllRuntime(s) == Len(s) > 0 /\ \A i \in DOMAIN s : IsRuntime(s[i])

\* The program counters of the frame and address lines of what was written.
RECURSIVE PrintedPCs(_)
PrintedPCs(out) ==
    IF out = <<>> THEN <<>>
    ELSE (IF Head(out).kind = "blank" THEN <<>> ELSE <<Head(out).pc>>)
            \o PrintedPCs(Tail(out))

\* The names on the frame lines of what was written.
PrintedNames(out) ==
    {out[i].name : i \in {j \in DOMAIN out : out[j].kind = "frame"}}

\* The frames a pass that starts with show = TRUE prints: all but runtime.goexit.
RECURSIVE NotGoexitFrom(_, _)
NotGoexitFrom(s, i) ==
    IF i > Len(s) THEN <<>>
    ELSE (IF IsGoexit(s[i]) THEN <<>> ELSE <<s[i]>>) \o NotGoexitFrom(s, i + 1)

\* The frames a pass that starts with show = FALSE prints: not goexit, and
\* either not a runtime function or after a frame that is not one.
RECURSIVE LeadingHiddenFrom(_, _)
LeadingHiddenFrom(s, i) ==
    IF i > Len(s) THEN <<>>
    ELSE (IF /\ ~IsGoexit(s[i])
             /\ (~IsRuntime(s[i]) \/ \E j \in 1 .. (i - 1) : ~IsRuntime(s[j]))
          THEN <<s[i]>> ELSE <<>>)
            \o LeadingHiddenFrom(s, i + 1)

\* C7 as stated: for a stack of runtime frames only, the call with
\* allFrames = FALSE writes nothing in its first pass, makes one second pass,
\* and the printed trace is not empty; no call makes a third pass.
C7_AllRuntimeNotEmpty ==
    pc = "printed" =>
        /\ Len(passes) <= 2
        /\ (~allFrames /\ AllRuntime(stk)) =>
              /\ Len(passes) = 2
              /\ passes[1] = <<>>
              /\ PrintedPCs(passes[2]) # <<>>

\* C7 as amended: the same for a stack of runtime frames of which one at
\* least is not runtime.goexit, the second pass printing every frame but the
\* runtime.goexit ones; for a stack of runtime.goexit frames only the second
\* pass writes the closing blank line alone.
C7_AllRuntimeSecondPass ==
    pc = "printed" =>
        /\ Len(passes) <= 2
        /\ (~allFrames /\ AllRuntime(stk)) =>
              /\ Len(passes) = 2
              /\ passes[1] = <<>>
              /\ PrintedPCs(passes[2]) = NotGoexitFrom(stk, 1)
              /\ (PrintedPCs(passes[2]) = <<>>) = (\A i \in DOMAIN stk : IsGoexit(stk[i]))

\* A stack of two runtime frames or more, not all runtime.goexit, printed in
\* a second pass.
C7_Witness ==
    /\ pc = "printed"
    /\ ~allFrames
    /\ AllRuntime(stk)
    /\ Len(stk) >= 2
    /\ \E i \in DOMAIN stk : ~IsGoexit(stk[i])
    /\ Len(passes) = 2
    /\ Len(passes[2]) >= 3

\* C9 as stated: runtime.goexit is never printed, and with a user frame in
\* the stack no frame of a runtime function is printed.
C9_RuntimeSuppressed ==
    pc = "printed" =>
        /\ \A k \in DOMAIN passes : "runtime.goexit" \notin PrintedNames(passes[k])
        /\ (~allFrames /\ \E i \in DOMAIN stk : IsUser(stk[i])) =>
              \A k \in DOMAIN passes :
                  \A n \in PrintedNames(passes[k]) : ~HasPrefix(n, "runtime.")

\* C9 as amended: runtime.goexit is never printed; a pass that starts with
\* show = FALSE hides the other runtime frames only up to the first frame
\* that is not a runtime function (a user function or an unresolvable
\* address) and prints them after it; a pass that starts with show = TRUE
\* prints every frame but runtime.goexit.
C9_LeadingRuntimeSuppressed ==
    pc = "printed" =>
        /\ \A k \in DOMAIN passes : "runtime.goexit" \notin PrintedNames(passes[k])
        /\ ~allFrames => PrintedPCs(passes[1]) = LeadingHiddenFrom(stk, 1)
        /\ PrintedPCs(passes[Len(passes)]) =
              (IF allFrames \/ Len(passes) = 2
               THEN NotGoexitFrom(stk, 1) ELSE LeadingHiddenFrom(stk, 1))

\* A runtime frame printed after a user frame, a leading one hidden, and
\* runtime.goexit in the stack.
C9_Witness ==
    /\ pc = "printed"
    /\ ~allFrames
    /\ Len(stk) = 3
    /\ IsRuntime(stk[1]) /\ IsUser(stk[2]) /\ IsRuntime(stk[3]) /\ ~IsGoexit(stk[3])
    /\ Len(passes) = 1
    /\ PrintedPCs(passes[1]) = <<stk[2], stk[3]>>

-----------------------------------------------------------------------------
(* Properties of formatSize (SpecFormat) *)

KB == [m |-> 1, e |-> 1]
TwoTB == [m |-> 2, e |-> 4]

\* The text is a whole number followed by unit.
IsWhole(text, unit) == \E n \in 0 .. (MaxMantissa + 1) : text = ToString(n) \o unit

\* size is m * 1024^e < 1000 * 1024^i
Below(sz, i) ==
    IF sz.e - i >= 1 THEN sz.m <= 0
    ELSE IF i - sz.e >= 2 THEN TRUE
    ELSE sz.m < 1000 * (1024 ^ (i - sz.e))

\* The value in hundredths of 1024^i bytes, rounded, as text with two decimals.
TwoDecimals(sz, i) ==
    IF sz.e >= i
    THEN ToString(IF sz.m = 0 THEN 0 ELSE sz.m * (1024 ^ (sz.e - i))) \o ".00"
    ELSE LET h == RoundHalfEven(sz.m * 100, 1024 ^ (i - sz.e))
         IN  ToString(h \div 100) \o "." \o Pad2(h % 100)

=============================================================================
